---------------------------- MODULE Spec2Model ----------------------------
(***************************************************************************)
(* A model of company_portfolio_ai/app.py: the LangGraph pipeline          *)
(* scrape -> clean -> contact -> logo -> ai -> normalize -> pdf, the       *)
(* Streamlit "Generate" handler that runs it, the crawler crawl_site, the  *)
(* contact extractor contact_node and the sqlite table written by          *)
(* save_to_db.                                                             *)
(*                                                                         *)
(* Text is modelled as sequences of one-character strings, so that the     *)
(* string operations of the code (replace, split, strip, lower, substring  *)
(* tests and the regular expressions) are computed character by character. *)
(***************************************************************************)
EXTENDS Integers, Sequences, FiniteSets, TLC

VARIABLES
    pc,        \* where the Generate handler is: "idle", a graph node, "display", "done", "failed"
    state,     \* the GraphState dictionary handed from node to node
    db,        \* the rows of table companies in companies.db, in insertion order
    files,     \* the PDF files written to disk (their names)
    result,    \* what graph.invoke returned to the handler ("none" before it returns)
    error,     \* the exception that ended the invocation ("none" if none)
    trace,     \* the graph nodes entered by this invocation, in order
    runs,      \* how many times Generate has been pressed
    site,      \* the markup the browser serves for the landing URL
    cpc,       \* where crawl_site is: "start", "loop", "done"
    limit,     \* crawl_site's parameter limit
    selected,  \* list(set(links))[:limit]
    idx,       \* position of the for loop over selected
    pages,     \* crawl_site's local list pages
    attempts   \* the page.goto calls made on linked pages: <<link, loaded>>

vars == <<pc, state, db, files, result, error, trace, runs, site,
          cpc, limit, selected, idx, pages, attempts>>

crawlVars == <<cpc, limit, selected, idx, pages, attempts>>

---------------------------------------------------------------------------
(* Bounds of the model.                                                    *)

MaxRuns == 2

MaxLimit == 2

MaxLinks == 2

MaxAnchors == 1

MaxLines == 2

MaxMissing == 1

---------------------------------------------------------------------------
(* Characters and Python's string operations.                              *)

LowerLetters == <<"a","b","c","d","e","f","g","h","i","j","k","l","m",
                  "n","o","p","q","r","s","t","u","v","w","x","y","z">>

UpperLetters == <<"A","B","C","D","E","F","G","H","I","J","K","L","M",
                  "N","O","P","Q","R","S","T","U","V","W","X","Y","Z">>

Range(s) == {s[i] : i \in 1..Len(s)}

Letters == Range(LowerLetters) \cup Range(UpperLetters)

Digits == {"0","1","2","3","4","5","6","7","8","9"}

\* What \s matches and str.strip() removes.
Whitespace == {" ", "\n", "\t"}

\* A character outside 7-bit ASCII, as the pages may contain.
NonAscii == {"~e"}

\* str.lower() on one character.
LowerChar(c) ==
    IF c \in Range(UpperLetters)
    THEN LowerLetters[CHOOSE i \in 1..26 : UpperLetters[i] = c]
    ELSE c

\* s.lower()
Lower(s) == [i \in 1..Len(s) |-> LowerChar(s[i])]

\* pat occurs in s at position i
MatchAt(s, pat, i) ==
    /\ i >= 1
    /\ i + Len(pat) - 1 <= Len(s)
    /\ \A j \in 1..Len(pat) : s[i + j - 1] = pat[j]

\* pat in s
Contains(s, pat) == \E i \in 1..(Len(s) - Len(pat) + 1) : MatchAt(s, pat, i)

\* s.startswith(pat)
StartsWith(s, pat) == MatchAt(s, pat, 1)

\* s.replace(pat, ""): every non-overlapping occurrence removed, left to right.
RECURSIVE RemoveFrom(_, _, _)
RemoveFrom(s, pat, i) ==
    IF i > Len(s) THEN <<>>
    ELSE IF MatchAt(s, pat, i) THEN RemoveFrom(s, pat, i + Len(pat))
    ELSE <<s[i]>> \o RemoveFrom(s, pat, i + 1)

RemoveAll(s, pat) == RemoveFrom(s, pat, 1)

\* s.replace(a, b) for single characters
ReplaceChar(s, a, b) == [i \in 1..Len(s) |-> IF s[i] = a THEN b ELSE s[i]]

\* s.split(c)[0]
BeforeFirst(s, c) ==
    IF \E i \in 1..Len(s) : s[i] = c
    THEN SubSeq(s, 1, (CHOOSE i \in 1..Len(s) :
                          s[i] = c /\ \A j \in 1..(i - 1) : s[j] # c) - 1)
    ELSE s

\* the members of a set of numbers, in increasing order
RECURSIVE Sorted(_)
Sorted(S) ==
    IF S = {} THEN <<>>
    ELSE LET m == CHOOSE x \in S : \A y \in S : x <= y
         IN  <<m>> \o Sorted(S \ {m})

\* s.split(c): the pieces between the occurrences of c
Split(s, c) ==
    LET cut == Sorted({i \in 1..Len(s) : s[i] = c})
        n == Len(cut)
    IN  [k \in 1..(n + 1) |->
            SubSeq(s, IF k = 1 THEN 1 ELSE cut[k - 1] + 1,
                      IF k = n + 1 THEN Len(s) ELSE cut[k] - 1)]

\* s.strip()
Strip(s) ==
    IF \A i \in 1..Len(s) : s[i] \in Whitespace THEN <<>>
    ELSE LET keep == {i \in 1..Len(s) : s[i] \notin Whitespace}
             lo == CHOOSE i \in keep : \A j \in keep : i <= j
             hi == CHOOSE i \in keep : \A j \in keep : i >= j
         IN  SubSeq(s, lo, hi)

\* sep.join(parts)
RECURSIVE Join(_, _)
Join(parts, sep) ==
    IF parts = <<>> THEN <<>>
    ELSE IF Len(parts) = 1 THEN parts[1]
    ELSE parts[1] \o sep \o Join(Tail(parts), sep)

\* the concatenation of a sequence of sequences
RECURSIVE Flatten(_)
Flatten(ss) == IF ss = <<>> THEN <<>> ELSE ss[1] \o Flatten(Tail(ss))

\* the number of consecutive characters of class from position i on
RECURSIVE RunLen(_, _, _)
RunLen(s, class, i) ==
    IF i > Len(s) \/ s[i] \notin class THEN 0
    ELSE 1 + RunLen(s, class, i + 1)

Max(S) == CHOOSE x \in S : \A y \in S : x >= y

Min(S) == CHOOSE x \in S : \A y \in S : x <= y

Min2(a, b) == IF a < b THEN a ELSE b

---------------------------------------------------------------------------
(* contact_node (lines 131-176).                                           *)
(* BeautifulSoup's parse of raw_html is taken as given: the markup of a    *)
(* page is the record of what the parser yields from it,                   *)
(*   hrefs : the href of every <a href=...>, in document order,            *)
(*   text  : the text nodes joined by newlines (get_text("\n")),           *)
(*   imgs  : the <img> tags as [src, alt].                                 *)
(* raw_html is the sequence of the crawled markups (" ".join(pages)); the  *)
(* parse of it holds the anchors, text and images of all of them.          *)

Soup(raw_html) ==
    [hrefs |-> Flatten([i \in 1..Len(raw_html) |-> raw_html[i].hrefs]),
     text  |-> Join([i \in 1..Len(raw_html) |-> raw_html[i].text], <<"\n">>),
     imgs  |-> Flatten([i \in 1..Len(raw_html) |-> raw_html[i].imgs])]

MailtoPrefix == <<"m","a","i","l","t","o",":">>

TelPrefix == <<"t","e","l",":">>

\* lines 141-142: emails.add(h.replace("mailto:","").split("?")[0])
MailtoEmail(h) == BeforeFirst(RemoveAll(h, MailtoPrefix), "?")

\* lines 144-145: phones.add(h.replace("tel:",""))
TelPhone(h) == RemoveAll(h, TelPrefix)

AnchorEmails(hrefs) ==
    {MailtoEmail(hrefs[i]) : i \in {j \in 1..Len(hrefs) : StartsWith(hrefs[j], MailtoPrefix)}}

AnchorPhones(hrefs) ==
    {TelPhone(hrefs[i]) : i \in {j \in 1..Len(hrefs) : StartsWith(hrefs[j], TelPrefix)}}

\* lines 136, 147-154: the last anchor naming a network wins; "" when none does
SocialPatterns ==
    [linkedin  |-> {<<"l","i","n","k","e","d","i","n",".","c","o","m","/","c","o","m","p","a","n","y">>},
     instagram |-> {<<"i","n","s","t","a","g","r","a","m",".","c","o","m">>},
     facebook  |-> {<<"f","a","c","e","b","o","o","k",".","c","o","m">>},
     twitter   |-> {<<"t","w","i","t","t","e","r",".","c","o","m">>, <<"x",".","c","o","m">>}]

LastMatching(hrefs, pats) ==
    LET hit == {i \in 1..Len(hrefs) : \E p \in pats : Contains(hrefs[i], p)}
    IN  IF hit = {} THEN <<>> ELSE hrefs[Max(hit)]

Socials(hrefs) ==
    [k \in DOMAIN SocialPatterns |-> LastMatching(hrefs, SocialPatterns[k])]

\* line 158: re.findall(r"[A-Za-z0-9._%+-]+@[A-Za-z0-9.-]+\.[A-Za-z]{2,}", text)
EmailLocalChars == Letters \cup Digits \cup {".", "_", "%", "+", "-"}

EmailDomainChars == Letters \cup Digits \cup {".", "-"}

EmailMinTld == 2

\* The end of the match that starts at i, or 0 when none starts there.  The
\* local part is the whole run up to the "@" (no shorter one is followed by
\* "@"); the greedy domain part gives back characters until a "." followed by
\* at least two letters remains, so the last such "." of the run is taken.
EmailEndAt(t, i) ==
    LET r == RunLen(t, EmailLocalChars, i)
        at == i + r
        p == at + 1
        m == RunLen(t, EmailDomainChars, p)
        dots == {n \in 1..(m - 1) :
                    /\ t[p + n] = "."
                    /\ RunLen(t, Letters, p + n + 1) >= EmailMinTld}
    IN  IF r >= 1 /\ at <= Len(t) /\ t[at] = "@" /\ dots # {}
        THEN p + Max(dots) + RunLen(t, Letters, p + Max(dots) + 1)
        ELSE 0

\* findall: the leftmost match from i on, then the matches after its end
RECURSIVE FindEmailsFrom(_, _)
FindEmailsFrom(t, i) ==
    LET starts == {j \in i..Len(t) : EmailEndAt(t, j) # 0}
    IN  IF starts = {} THEN <<>>
        ELSE LET j == Min(starts)
             IN  <<SubSeq(t, j, EmailEndAt(t, j))>> \o FindEmailsFrom(t, EmailEndAt(t, j) + 1)

FindEmails(t) == FindEmailsFrom(t, 1)

\* line 161: re.findall(r"\+?\d[\d\s\-]{8,15}\d", text)
PhoneBodyChars == Digits \cup Whitespace \cup {"-"}

PhoneBodyMin == 8

PhoneBodyMax == 15

\* The end of \d[\d\s\-]{8,15}\d starting at j, or 0: the greedy body takes up
\* to 15 characters and gives back until a digit follows it.
PhoneCoreEnd(t, j) ==
    IF j > Len(t) \/ t[j] \notin Digits THEN 0
    ELSE LET run == Min2(RunLen(t, PhoneBodyChars, j + 1), PhoneBodyMax)
             ks == {k \in PhoneBodyMin..run :
                       j + 1 + k <= Len(t) /\ t[j + 1 + k] \in Digits}
         IN  IF ks = {} THEN 0 ELSE j + 1 + Max(ks)

\* \+? takes a "+" when there is one; without it "+" is no digit.
PhoneEndAt(t, i) ==
    IF t[i] = "+" THEN PhoneCoreEnd(t, i + 1) ELSE PhoneCoreEnd(t, i)

RECURSIVE FindPhonesFrom(_, _)
FindPhonesFrom(t, i) ==
    LET starts == {j \in i..Len(t) : PhoneEndAt(t, j) # 0}
    IN  IF starts = {} THEN <<>>
        ELSE LET j == Min(starts)
             IN  <<SubSeq(t, j, PhoneEndAt(t, j))>> \o FindPhonesFrom(t, PhoneEndAt(t, j) + 1)

FindPhones(t) == FindPhonesFrom(t, 1)

\* line 162: clean = re.sub(r"[^\d+]", "", p)
IsDigitOrPlus(c) == c \in Digits \cup {"+"}

CleanPhone(p) == SelectSeq(p, IsDigitOrPlus)

PhoneMinLen == 10

PhoneMaxLen == 13

\* line 163: if 10 <= len(clean) <= 13
PhoneAccepted(clean) == PhoneMinLen <= Len(clean) /\ Len(clean) <= PhoneMaxLen

\* lines 161-164: the phones the free-text path adds
TextPhones(t) ==
    LET ms == FindPhones(t)
    IN  {CleanPhone(ms[i]) : i \in {j \in 1..Len(ms) : PhoneAccepted(CleanPhone(ms[j]))}}

TextEmails(t) == Range(FindEmails(t))

\* line 167
AddressKeywords ==
    {<<"i","n","d","i","a">>, <<"s","t","r","e","e","t">>, <<"r","o","a","d">>,
     <<"f","l","o","o","r">>, <<"b","u","i","l","d","i","n","g">>,
     <<"o","f","f","i","c","e">>}

AddrMinLen == 30

AddrMaxLen == 200

\* line 168 with the lower bound left out
AddressLengthUpperOnly(line) == Len(line) < AddrMaxLen

\* line 168: if 30 < len(line) < 200
AddressLength(line) == AddrMinLen < Len(line) /\ Len(line) < AddrMaxLen

\* lines 167-168: the line is classified as an address
IsAddressLine(line) ==
    /\ \E k \in AddressKeywords : Contains(Lower(line), k)
    /\ AddressLength(line)

\* lines 166-169
Addresses(t) ==
    LET ls == Split(t, "\n")
    IN  {Strip(ls[i]) : i \in {j \in 1..Len(ls) : IsAddressLine(ls[j])}}

\* contact_node's return value (sets stand for the lists made of them)
ContactOf(raw_html) ==
    LET soup == Soup(raw_html)
    IN  [emails    |-> AnchorEmails(soup.hrefs) \cup TextEmails(soup.text),
         phones    |-> AnchorPhones(soup.hrefs) \cup TextPhones(soup.text),
         addresses |-> Addresses(soup.text),
         socials   |-> Socials(soup.hrefs)]

---------------------------------------------------------------------------
(* The web the browser sees.                                               *)

BaseUrl == <<"h","t","t","p",":","/","/","h",".","i","o">>

HttpScheme == <<"h","t","t","p">>

\* urljoin(url, href) at lines 92 and 188, for a base without a path: an href
\* with a scheme stands for itself, any other is resolved against the base,
\* so that "about" and "/about" name the same page.
UrlJoin(base, h) ==
    IF Contains(h, <<":">>) THEN h
    ELSE IF StartsWith(h, <<"/">>) THEN base \o h
    ELSE base \o <<"/">> \o h

\* The markup of a linked page: it has no anchors and shows its own address.
PageAt(l) == [hrefs |-> <<>>, text |-> l, imgs |-> <<>>]

\* page.goto can load http addresses only (a mailto: link never loads).
Navigable(l) == StartsWith(l, HttpScheme)

\* The sequences over S of length at most n
SeqsUpTo(S, n) == UNION {[1..k -> S] : k \in 0..n}

\* The landing page of the pipeline runs.
HomePage ==
    [hrefs |-> << <<"/","a","b","o","u","t">>,
                  <<"/","b","l","o","g">>,
                  <<"m","a","i","l","t","o",":","c","o","n","t","a","c","t","@","h",".","i","o">>,
                  <<"t","e","l",":","+","1","4","1","5","5","5","5","1","2","3","4">> >>,
     text  |-> <<"A"," ","C","o","~e","\n","H","Q"," ","4","1","5","5","5","5","1","2","3","4">>,
     imgs  |-> << [src |-> <<"/","L","o","g","o",".","p","n","g">>, alt |-> <<>>] >>]

\* The landing pages crawl_site is tried on: up to MaxLinks anchors.
CrawlHrefs ==
    {<<"/","a","b","o","u","t">>, <<"a","b","o","u","t">>, <<"/","T","E","A","M">>,
     <<"/","b","l","o","g">>,
     <<"m","a","i","l","t","o",":","c","o","n","t","a","c","t","@","h",".","i","o">>}

CrawlSites ==
    {[hrefs |-> hs, text |-> <<"h","i">>, imgs |-> <<>>] : hs \in SeqsUpTo(CrawlHrefs, MaxLinks)}

---------------------------------------------------------------------------
(* crawl_site (lines 71-104).                                              *)

DefaultLimit == 10

\* lines 88-91
LinkKeywords ==
    {<<"a","b","o","u","t">>, <<"c","o","m","p","a","n","y">>,
     <<"s","e","r","v","i","c","e">>, <<"p","r","o","d","u","c","t">>,
     <<"s","o","l","u","t","i","o","n">>, <<"t","e","a","m">>,
     <<"l","e","a","d","e","r","s","h","i","p">>, <<"c","o","n","t","a","c","t">>}

\* lines 87-88: h = a["href"].lower(); any(x in h for x in [...])
IsCrawlLink(href) == \E k \in LinkKeywords : Contains(Lower(href), k)

\* lines 85-92: the list links
Links(url, landing) ==
    LET hs == SelectSeq(landing.hrefs, IsCrawlLink)
    IN  [i \in 1..Len(hs) |-> UrlJoin(url, hs[i])]

\* the orders in which a set may be listed
Orderings(S) ==
    {p \in [1..Cardinality(S) -> S] : \A i, j \in 1..Cardinality(S) : p[i] = p[j] => i = j}

\* s[:n] for n >= 0
Take(s, n) == SubSeq(s, 1, Min2(n, Len(s)))

\* line 94 without the slice: every matching link is visited
SelectionsUncapped(links, lim) == Orderings(Range(links))

\* line 94: list(set(links))[:limit]; the set is listed in an order of its own
Selections(links, lim) == {Take(p, lim) : p \in Orderings(Range(links))}

NoError == [stage |-> "none", kind |-> "none"]

Fail(stage, kind) ==
    /\ pc' = "failed"
    /\ error' = [stage |-> stage, kind |-> kind]

\* lines 299-307
EntryPoint == "scrape"

\* lines 301-307 with the edges around contact and logo laid the other way
EdgesSwapped ==
    {<<"scrape", "clean">>, <<"clean", "logo">>, <<"logo", "contact">>,
     <<"contact", "ai">>, <<"ai", "normalize">>, <<"normalize", "pdf">>,
     <<"pdf", "END">>}

\* lines 301-307 with render before persist
EdgesRenderFirst ==
    {<<"scrape", "clean">>, <<"clean", "contact">>, <<"contact", "logo">>,
     <<"logo", "ai">>, <<"ai", "pdf">>, <<"pdf", "normalize">>,
     <<"normalize", "END">>}

Edges ==
    {<<"scrape", "clean">>, <<"clean", "contact">>, <<"contact", "logo">>,
     <<"logo", "ai">>, <<"ai", "normalize">>, <<"normalize", "pdf">>,
     <<"pdf", "END">>}

Successor(n) == CHOOSE m \in {e[2] : e \in Edges} : <<n, m>> \in Edges

\* A node has returned its update: the graph moves on, and at END
\* graph.invoke returns the final state to the handler (line 340).
Advance(n, new) ==
    /\ state' = new
    /\ pc' = IF Successor(n) = "END" THEN "display" ELSE Successor(n)
    /\ result' = IF Successor(n) = "END"
                 THEN [returned |-> TRUE, data |-> new.data, pdf_path |-> new.pdf_path]
                 ELSE result

\* lines 72-94: the landing page is loaded (an exception of page.goto is not
\* caught), the matching links are collected and at most lim of them selected.
crawl_site_start(lim) ==
    /\ pc = "scrape"
    /\ cpc = "start"
    /\ trace' = Append(trace, "scrape")
    /\ \/ /\ Fail("scrape", "navigation")
          /\ cpc' = "done"
          /\ UNCHANGED <<limit, selected, idx, pages, attempts>>
       \/ /\ limit' = lim
          /\ pages' = <<site>>
          /\ selected' \in Selections(Links(state.url, site), lim)
          /\ idx' = 1
          /\ attempts' = <<>>
          /\ cpc' = "loop"
          /\ UNCHANGED <<pc, error>>
    /\ UNCHANGED <<state, db, files, result, runs, site>>

\* lines 94-100 without the try/except: a failed navigation raises
crawl_site_visit_uncaught ==
    /\ pc = "scrape"
    /\ cpc = "loop"
    /\ idx <= Len(selected)
    /\ \E loaded \in (IF Navigable(selected[idx]) THEN BOOLEAN ELSE {FALSE}) :
          /\ attempts' = Append(attempts, <<selected[idx], loaded>>)
          /\ IF loaded
             THEN /\ pages' = Append(pages, PageAt(selected[idx]))
                  /\ UNCHANGED <<pc, error, cpc>>
             ELSE /\ Fail("scrape", "navigation")
                  /\ cpc' = "done"
                  /\ UNCHANGED pages
    /\ idx' = idx + 1
    /\ UNCHANGED <<state, db, files, result, trace, runs, site, limit, selected>>

\* lines 94-100: one iteration of the loop; any exception is swallowed
crawl_site_visit ==
    /\ pc = "scrape"
    /\ cpc = "loop"
    /\ idx <= Len(selected)
    /\ \E loaded \in (IF Navigable(selected[idx]) THEN BOOLEAN ELSE {FALSE}) :
          /\ pages' = IF loaded THEN Append(pages, PageAt(selected[idx])) ELSE pages
          /\ attempts' = Append(attempts, <<selected[idx], loaded>>)
    /\ idx' = idx + 1
    /\ UNCHANGED <<pc, state, db, files, result, error, trace, runs, site,
                   cpc, limit, selected>>

\* lines 102-104 and 110-111: " ".join(pages) becomes raw_html
crawl_site_return ==
    /\ pc = "scrape"
    /\ cpc = "loop"
    /\ idx > Len(selected)
    /\ cpc' = "done"
    /\ Advance("scrape", [state EXCEPT !.raw_html = pages])
    /\ UNCHANGED <<db, files, error, trace, runs, site,
                   limit, selected, idx, pages, attempts>>

\* lines 110-111
scrape_node == crawl_site_start(DefaultLimit)

---------------------------------------------------------------------------
(* The other nodes of the graph.                                           *)

\* A dictionary with no keys
EmptyDict == [k \in {} |-> <<>>]

HasKey(d, k) == k \in DOMAIN d

\* lines 327-338: the state the handler builds for graph.invoke
FreshState(url) ==
    [url |-> url, raw_html |-> <<>>, clean_text |-> <<>>, emails |-> {},
     phones |-> {}, addresses |-> {}, socials |-> EmptyDict, logo |-> <<>>,
     data |-> EmptyDict, pdf_path |-> <<>>]

NoResult == [returned |-> FALSE, data |-> EmptyDict, pdf_path |-> <<>>]

\* line 123: re.sub(r"[^\x00-\x7F]+", " ", text): a run of non-ASCII
\* characters becomes one space
RECURSIVE AsciiFrom(_, _)
AsciiFrom(t, i) ==
    LET bad == {j \in i..Len(t) : t[j] \in NonAscii}
    IN  IF bad = {} THEN SubSeq(t, i, Len(t))
        ELSE LET j == Min(bad)
             IN  SubSeq(t, i, j - 1) \o <<" ">> \o AsciiFrom(t, j + RunLen(t, NonAscii, j))

\* lines 117-125: get_text(" ") joins the text nodes by spaces
CleanText(raw_html) == AsciiFrom(ReplaceChar(Soup(raw_html).text, "\n", " "), 1)

clean_node ==
    /\ pc = "clean"
    /\ trace' = Append(trace, "clean")
    /\ Advance("clean", [state EXCEPT !.clean_text = CleanText(state.raw_html)])
    /\ UNCHANGED <<db, files, error, runs, site, crawlVars>>

\* lines 131-176
contact_node ==
    /\ pc = "contact"
    /\ trace' = Append(trace, "contact")
    /\ LET c == ContactOf(state.raw_html)
       IN  Advance("contact", [state EXCEPT !.emails = c.emails,
                                            !.phones = c.phones,
                                            !.addresses = c.addresses,
                                            !.socials = c.socials])
    /\ UNCHANGED <<db, files, error, runs, site, crawlVars>>

LogoWord == <<"l","o","g","o">>

\* lines 182-189: the first image whose src or alt contains "logo"
LogoOf(url, raw_html) ==
    LET imgs == Soup(raw_html).imgs
        hit == {i \in 1..Len(imgs) :
                   \/ Contains(Lower(imgs[i].src), LogoWord)
                   \/ Contains(Lower(imgs[i].alt), LogoWord)}
    IN  IF hit = {} THEN <<>>
        ELSE UrlJoin(url, imgs[CHOOSE i \in hit : \A j \in hit : i <= j].src)

logo_node ==
    /\ pc = "logo"
    /\ trace' = Append(trace, "logo")
    /\ Advance("logo", [state EXCEPT !.logo = LogoOf(state.url, state.raw_html)])
    /\ UNCHANGED <<db, files, error, runs, site, crawlVars>>

\* lines 215-223: the keys the prompt asks for
RequestedKeys ==
    {"company_name", "tagline", "overview", "products_services", "industry",
     "technology_stack", "leadership"}

\* A complete answer of the model
FullProfile ==
    [company_name      |-> <<"A"," ","C","o">>,
     tagline           |-> <<"t","a","g">>,
     overview          |-> <<"o","v","e","r">>,
     products_services |-> << <<"p","1">> >>,
     industry          |-> <<"i","n","d">>,
     technology_stack  |-> << <<"t","1">> >>,
     leadership        |-> << <<"l","1">> >>]

\* The answers the hosted model may give: nothing checks the keys of the
\* parsed JSON, so up to MaxMissing of the requested keys, or all, may be
\* absent.
ResponseKeys ==
    {ks \in SUBSET RequestedKeys : Cardinality(RequestedKeys \ ks) <= MaxMissing}
        \cup {{}}

\* lines 210-227: chain.invoke raises when the API call fails or when the
\* answer is not JSON; otherwise the parsed dictionary becomes data
ai_node ==
    /\ pc = "ai"
    /\ trace' = Append(trace, "ai")
    /\ \/ /\ \E kind \in {"api", "json"} : Fail("ai", kind)
          /\ UNCHANGED <<state, result>>
       \/ /\ \E ks \in ResponseKeys :
                Advance("ai", [state EXCEPT !.data = [k \in ks |-> FullProfile[k]]])
          /\ UNCHANGED error
    /\ UNCHANGED <<db, files, runs, site, crawlVars>>

\* lines 234-244: contact and logo are merged into data
Merged(st) ==
    [k \in DOMAIN st.data \cup {"contact", "logo"} |->
        IF k = "contact"
        THEN [website |-> st.url, emails |-> st.emails, phones |-> st.phones,
              addresses |-> st.addresses, socials |-> st.socials]
        ELSE IF k = "logo" THEN st.logo
        ELSE st.data[k]]

\* json.dumps(data): the text of the dictionary
JsonDumps(d) == <<"json", d>>

\* line 46: the row save_to_db inserts
Row(d) == [name |-> d["company_name"], website |-> d["contact"].website,
           json |-> JsonDumps(d)]

\* lines 34-49: what a call may end in.  sqlite may raise at any statement up
\* to the commit; the lookup data["company_name"] raises when the key is absent.
SaveOutcomes(d) ==
    {"database"} \cup (IF HasKey(d, "company_name") THEN {"ok"} ELSE {"KeyError"})

\* lines 44-47 as an upsert: a row of the same name is replaced
save_to_db_upsert(d, outcome) ==
    IF outcome = "ok"
    THEN db' = IF \E i \in 1..Len(db) : db[i].name = Row(d).name
               THEN [i \in 1..Len(db) |-> IF db[i].name = Row(d).name THEN Row(d) ELSE db[i]]
               ELSE Append(db, Row(d))
    ELSE /\ db' = db
         /\ Fail("normalize", outcome)

\* lines 34-49: one row is inserted and committed, or nothing is written
save_to_db(d, outcome) ==
    IF outcome = "ok"
    THEN db' = Append(db, Row(d))
    ELSE /\ db' = db
         /\ Fail("normalize", outcome)

\* lines 233-248: data is changed in place before save_to_db is called, so
\* the merge stands even when save_to_db raises
normalize_node ==
    /\ pc = "normalize"
    /\ trace' = Append(trace, "normalize")
    /\ LET d == Merged(state)
       IN  \E outcome \in SaveOutcomes(d) :
              /\ save_to_db(d, outcome)
              /\ IF outcome = "ok"
                 THEN Advance("normalize", [state EXCEPT !.data = d]) /\ UNCHANGED error
                 ELSE state' = [state EXCEPT !.data = d] /\ UNCHANGED result
    /\ UNCHANGED <<files, runs, site, crawlVars>>

PdfSuffix == <<".","p","d","f">>

\* line 257
Filename(d) == ReplaceChar(d["company_name"], " ", "_") \o PdfSuffix

\* lines 257-279 without the tagline paragraph
PdfKeysNoTagline ==
    <<"company_name", "overview", "products_services",
      "technology_stack", "leadership">>

\* lines 257-279: the keys pdf_node reads, in the order it reads them
PdfKeys ==
    <<"company_name", "tagline", "overview", "products_services",
      "technology_stack", "leadership">>

MissingKey(d, keys) == \E i \in 1..Len(keys) : ~HasKey(d, keys[i])

\* lines 254-283: a missing key raises before doc.build; doc.build writes the
\* file or raises
PdfOutcomes(d) ==
    IF MissingKey(d, PdfKeys) THEN {"KeyError"} ELSE {"ok", "write"}

pdf_node ==
    /\ pc = "pdf"
    /\ trace' = Append(trace, "pdf")
    /\ \E outcome \in PdfOutcomes(state.data) :
          IF outcome = "ok"
          THEN /\ files' = files \cup {Filename(state.data)}
               /\ Advance("pdf", [state EXCEPT !.pdf_path = Filename(state.data)])
               /\ UNCHANGED error
          ELSE /\ Fail("pdf", outcome)
               /\ UNCHANGED <<state, result, files>>
    /\ UNCHANGED <<db, runs, site, crawlVars>>

---------------------------------------------------------------------------
(* The Streamlit handler (lines 319-384).                                  *)

\* lines 347-369 without the Industry section
DisplayKeysNoIndustry ==
    <<"company_name", "tagline", "overview", "products_services",
      "technology_stack", "leadership", "contact">>

\* lines 347-369: the keys the handler reads from result["data"], in order
DisplayKeys ==
    <<"company_name", "tagline", "overview", "products_services", "industry",
      "technology_stack", "leadership", "contact">>

\* The text field: empty, or the address of the site
UrlInputs == {<<>>, BaseUrl}

\* lines 319-340: Generate is pressed.  The script runs again from the top:
\* with no URL it warns and stops, otherwise it builds a fresh state and
\* invokes the graph at its entry point.
Generate ==
    /\ pc \in {"idle", "done", "failed"}
    /\ runs < MaxRuns
    /\ runs' = runs + 1
    /\ \E url \in UrlInputs :
          /\ state' = FreshState(url)
          /\ pc' = IF url = <<>> THEN "idle" ELSE EntryPoint
    /\ result' = NoResult
    /\ error' = NoError
    /\ trace' = <<>>
    /\ cpc' = "start"
    /\ limit' = DefaultLimit
    /\ selected' = <<>>
    /\ idx' = 1
    /\ pages' = <<>>
    /\ attempts' = <<>>
    /\ UNCHANGED <<db, files, site>>

\* lines 342-384: every field is shown, then the PDF is opened for download
display ==
    /\ pc = "display"
    /\ IF MissingKey(result.data, DisplayKeys)
       THEN Fail("display", "KeyError")
       ELSE IF result.pdf_path \notin files
       THEN Fail("display", "open")
       ELSE pc' = "done" /\ UNCHANGED error
    /\ UNCHANGED <<state, db, files, result, trace, runs, site, crawlVars>>

---------------------------------------------------------------------------
(* The specifications.                                                     *)

InitWith(pc0, state0, trace0, sites) ==
    /\ pc = pc0
    /\ state = state0
    /\ db = <<>>
    /\ files = {}
    /\ result = NoResult
    /\ error = NoError
    /\ trace = trace0
    /\ runs = 0
    /\ site \in sites
    /\ cpc = "start"
    /\ limit = DefaultLimit
    /\ selected = <<>>
    /\ idx = 1
    /\ pages = <<>>
    /\ attempts = <<>>

\* The application: Generate is pressed up to MaxRuns times on the home page.
Init == InitWith("idle", FreshState(<<>>), <<>>, {HomePage})

Next ==
    \/ Generate
    \/ scrape_node
    \/ crawl_site_visit
    \/ crawl_site_return
    \/ clean_node
    \/ contact_node
    \/ logo_node
    \/ ai_node
    \/ normalize_node
    \/ pdf_node
    \/ display

Spec == Init /\ [][Next]_vars

\* crawl_site(url, limit) called on every landing page of CrawlSites with
\* every limit up to MaxLimit.
CrawlInit == InitWith("scrape", FreshState(BaseUrl), <<>>, CrawlSites)

crawl_site_call == \E lim \in 0..MaxLimit : crawl_site_start(lim)

CrawlNext ==
    \/ crawl_site_call
    \/ crawl_site_visit
    \/ crawl_site_return

SpecCrawl == CrawlInit /\ [][CrawlNext]_vars

\* contact_node called on the markups of ContactDocs: up to MaxAnchors
\* anchors and up to MaxLines lines of text.
ContactHrefs ==
    {<<"m","a","i","l","t","o",":","a","@","b",".","c","o","?","s","=","1">>,
     <<"t","e","l",":","+","1","-","4","1","5","-","5","5","5","-","1","2","3","4">>,
     <<"t","e","l",":","+","1","4","1","5","5","5","5","1","2","3","4">>,
     <<"h","t","t","p",":","/","/","x",".","c","o","m","/","a">>,
     <<"h","t","t","p",":","/","/","l","i","n","k","e","d","i","n",".","c","o","m",
       "/","c","o","m","p","a","n","y","/","a">>}

\* s followed by as many "," as make it n characters long
Pad(s, n) == s \o [i \in 1..(n - Len(s)) |-> ","]

RoadLine == <<" ","9"," ","M","a","i","n"," ","R","o","a","d"," ">>

ContactLines ==
    << <<"+","1","2"," ","3","4","5","6"," ","7","8","9">>,
       <<"+","1","-","4","1","5","-","5","5","5","-","1","2","3","4">>,
       <<"1","2","-","3","4","5","6","-","7","8","9">>,
       <<"1","2","3","4","5","6","7","8","9","0","1","2","3","4","5","6">>,
       <<"m","a","i","l"," ","a","@","b",".","c","o"," ","n","o","w">>,
       Pad(RoadLine, 29),
       Pad(RoadLine, 30),
       Pad(RoadLine, 31),
       Pad(RoadLine, 200),
       Pad(RoadLine, 201) >>

ContactTexts ==
    {Join([i \in 1..Len(Sorted(S)) |-> ContactLines[Sorted(S)[i]]], <<"\n">>) :
        S \in {T \in SUBSET (1..Len(ContactLines)) : Cardinality(T) <= MaxLines}}

ContactDocs ==
    {[hrefs |-> hs, text |-> t, imgs |-> <<>>] :
        hs \in SeqsUpTo(ContactHrefs, MaxAnchors), t \in ContactTexts}

ContactInit ==
    /\ \E doc \in ContactDocs :
          state = [FreshState(BaseUrl) EXCEPT !.raw_html = <<doc>>]
    /\ pc = "contact"
    /\ db = <<>>
    /\ files = {}
    /\ result = NoResult
    /\ error = NoError
    /\ trace = <<"scrape", "clean">>
    /\ runs = 1
    /\ site = HomePage
    /\ cpc = "done"
    /\ limit = DefaultLimit
    /\ selected = <<>>
    /\ idx = 1
    /\ pages = <<>>
    /\ attempts = <<>>

ContactNext == contact_node

SpecContact == ContactInit /\ [][ContactNext]_vars

---------------------------------------------------------------------------
(* Properties of crawl_site, checked under SpecCrawl.                      *)

\* the markups of the links that loaded, in the order they were tried
LoadedMarkups(att) ==
    LET ok == SelectSeq(att, LAMBDA a : a[2])
    IN  [i \in 1..Len(ok) |-> PageAt(ok[i][1])]

LinkSet == Range(Links(state.url, site))

\* C1: crawl_site collects at most limit + 1 page markups, the landing page
\* plus at most limit linked pages, whatever the landing page links to and
\* whichever navigations fail; the text handed on as raw_html holds no more.
C1_PageBound ==
    /\ Len(pages) <= limit + 1
    /\ Len(state.raw_html) <= limit + 1
    /\ Len(selected) <= limit

\* C1's case: the landing page has more matching links than limit, all the
\* selected ones loaded, and crawl_site returned exactly limit + 1 markups.
C1_Witness ==
    /\ cpc = "done"
    /\ pc = "clean"
    /\ limit >= 1
    /\ Cardinality(LinkSet) > limit
    /\ Len(state.raw_html) = limit + 1

\* C2: a navigation failure on a linked page never aborts the crawl.  While
\* the loop runs no exception has left crawl_site and the links tried so far
\* are the first ones selected, in turn; an exception leaves crawl_site only
\* at the landing page, before any link is tried; and when crawl_site returns
\* every selected link has been tried and the result is the landing page
\* followed by the markup of exactly the links that loaded.  The selected
\* links are min(limit, number of distinct matching links) distinct matching
\* links.
C2_FailedLinksSkipped ==
    /\ cpc = "loop" =>
          /\ pc = "scrape"
          /\ error = NoError
          /\ Len(attempts) = idx - 1
          /\ \A i \in 1..Len(attempts) : attempts[i][1] = selected[i]
          /\ pages = <<site>> \o LoadedMarkups(attempts)
          /\ Range(selected) \subseteq LinkSet
          /\ Len(selected) = Min2(limit, Cardinality(LinkSet))
          /\ Cardinality(Range(selected)) = Len(selected)
    /\ error.stage = "scrape" => attempts = <<>> /\ state.raw_html = <<>>
    /\ (cpc = "done" /\ error = NoError) =>
          /\ Len(attempts) = Len(selected)
          /\ \A i \in 1..Len(attempts) : attempts[i][1] = selected[i]
          /\ state.raw_html = <<site>> \o LoadedMarkups(attempts)

\* C2's case: the first selected link failed to load, a later one loaded, and
\* crawl_site returned.
C2_Witness ==
    /\ cpc = "done"
    /\ pc = "clean"
    /\ Len(attempts) >= 2
    /\ ~attempts[1][2]
    /\ attempts[2][2]
    /\ Len(state.raw_html) = 2

---------------------------------------------------------------------------
(* Properties of the pipeline, checked under Spec.                         *)

\* the stages in the order the graph's edges give them
Chain == <<"scrape", "clean", "contact", "logo", "ai", "normalize", "pdf">>

Nodes == Range(Chain)

IsPrefix(s, t) == Len(s) <= Len(t) /\ \A i \in 1..Len(s) : s[i] = t[i]

Position(n) == CHOOSE i \in 1..Len(Chain) : Chain[i] = n

\* the AI stage has handed its answer on: persist has been reached
AiAnswered == pc = "normalize" \/ "normalize" \in Range(trace)

\* the answer of the AI stage lacks key k (persist adds no requested key)
Lacks(k) == AiAnswered /\ ~HasKey(state.data, k)

\* C4: within one invocation the stages run in the order scrape, clean,
\* contact, logo, ai, normalize, pdf, each at most once and none re-entered:
\* the stages entered so far are always an initial part of that chain, a
\* stage about to start has exactly its predecessors behind it, and the
\* handler has the result and displays it only after all seven have run.
C4_StrictChain ==
    /\ IsPrefix(trace, Chain)
    /\ (pc \in Nodes /\ ~(pc = "scrape" /\ cpc # "start")) =>
          trace = SubSeq(Chain, 1, Position(pc) - 1)
    /\ (pc = "scrape" /\ cpc # "start") => trace = <<"scrape">>
    /\ (pc \in {"display", "done"} \/ result.returned \/ error.stage = "display") =>
          trace = Chain
    /\ pc \in {"display", "done"} => result.returned

\* C4's case: an invocation ran all seven stages and the handler displayed
\* the result.
C4_Witness == pc = "done" /\ trace = Chain /\ result.returned

\* C5: the table is append-only.  A step of persist that succeeds adds
\* exactly one row (name, website, json) after the rows already stored, even
\* when an equal row is stored already; every other step, a failed persist
\* included, leaves the table as it is.
C5_AppendOnly ==
    [][ IF pc = "normalize" /\ pc' # "failed"
        THEN /\ Len(db') = Len(db) + 1
             /\ SubSeq(db', 1, Len(db)) = db
             /\ db'[Len(db')] = [name    |-> state'.data["company_name"],
                                 website |-> state.url,
                                 json    |-> JsonDumps(state'.data)]
        ELSE db' = db ]_vars

\* C5's case: two invocations with identical data were persisted, and the
\* table holds two equal rows.
C5_Witness == runs = 2 /\ Len(db) = 2 /\ db[1] = db[2]

\* C10: persist precedes render with no rollback.  The step that hands
\* control to render is the one that commits the invocation's row; render
\* itself, failing or not, leaves the table alone; and a PDF is written only
\* by render, when the row of the data it renders is the last one stored.
C10_PersistBeforeRender ==
    /\ [][ (pc # "pdf" /\ pc' = "pdf") =>
              (pc = "normalize" /\ db' = Append(db, Row(state'.data))) ]_vars
    /\ [][ pc = "pdf" => db' = db ]_vars
    /\ [][ files' # files =>
              (pc = "pdf" /\ db # <<>> /\ db[Len(db)] = Row(state.data)) ]_vars
    /\ [](("pdf" \in Range(trace)) => (db # <<>> /\ db[Len(db)] = Row(state.data)))

\* C10's case: render failed after persist, so the table holds a record for
\* which no PDF exists.
C10_Witness ==
    /\ pc = "failed"
    /\ error.stage = "pdf"
    /\ Len(db) = 1
    /\ files = {}

\* C3 as stated: every failure, a missing expected key among them, ends the
\* pipeline invocation before any result is returned to the handler.
C3_Original == error # NoError => (pc = "failed" /\ ~result.returned)

\* C3 as amended: a failure raised inside a pipeline stage ends the
\* invocation at that stage: no later stage has run, no stage ran twice and
\* no result was returned.  The only failure after the result was returned is
\* the handler's lookup of industry, the one requested key no stage reads.
C3_StageFailureEndsPipeline ==
    /\ error # NoError <=> pc = "failed"
    /\ error.stage \in Nodes =>
          /\ ~result.returned
          /\ state.pdf_path = <<>>
          /\ IsPrefix(trace, Chain)
          /\ trace # <<>>
          /\ trace[Len(trace)] = error.stage
    /\ error # NoError =>
          \/ error.stage \in Nodes
          \/ /\ error = [stage |-> "display", kind |-> "KeyError"]
             /\ result.returned
             /\ RequestedKeys \ DOMAIN result.data = {"industry"}

\* C3's case: a key that render reads is missing, and the invocation ended
\* at render with nothing returned.
C3_Witness ==
    /\ error = [stage |-> "pdf", kind |-> "KeyError"]
    /\ ~HasKey(state.data, "tagline")
    /\ ~result.returned

\* C9 as stated: when the answer of the AI stage lacks a requested key, the
\* invocation ends in a lookup failure at persist, render or display.
C9_Original ==
    \A k \in RequestedKeys :
        (Lacks(k) /\ pc \in {"done", "failed"}) =>
            /\ pc = "failed"
            /\ error.kind = "KeyError"
            /\ error.stage \in {"normalize", "pdf", "display"}

\* the step at which the lookup of the missing keys first fails
LookupStage(d) ==
    IF ~HasKey(d, "company_name") THEN "normalize"
    ELSE IF MissingKey(d, PdfKeys) THEN "pdf"
    ELSE "display"

\* C9 as amended: when the answer of the AI stage lacks a requested key the
\* invocation never completes normally; it ends in a lookup failure
\* downstream of the AI stage (company_name at persist, industry at display,
\* the others at render) unless a database failure of persist or a write
\* failure of render, which come before that lookup, ends it first.
C9_MissingKeyNeverCompletes ==
    \A k \in RequestedKeys :
        Lacks(k) =>
            /\ pc # "done"
            /\ pc = "failed" =>
                  \/ error = [stage |-> LookupStage(state.data), kind |-> "KeyError"]
                  \/ error = [stage |-> "normalize", kind |-> "database"]
                  \/ /\ error = [stage |-> "pdf", kind |-> "write"]
                     /\ LookupStage(state.data) = "display"

\* C9's case: the answer lacks industry, persist and render succeeded, and
\* the handler's lookup failed.
C9_Witness ==
    /\ Lacks("industry")
    /\ error = [stage |-> "display", kind |-> "KeyError"]
    /\ Len(db) >= 1
    /\ files # {}

---------------------------------------------------------------------------
(* Properties of contact_node, checked under SpecContact.                  *)

\* contact_node has returned
Extracted == pc = "logo"

DocText == Soup(state.raw_html).text

DocHrefs == Soup(state.raw_html).hrefs

DocLines == Range(Split(DocText, "\n"))

IsDigit(c) == c \in Digits

\* the number of digits of a phone string
DigitCount(p) == Len(SelectSeq(p, IsDigit))

HasAddressKeyword(line) == \E k \in AddressKeywords : Contains(Lower(line), k)

\* C6: no phone entry that comes from the free text alone has fewer than 10
\* or more than 13 digits.
C6_TextPhoneDigits ==
    Extracted =>
        \A p \in state.phones \ AnchorPhones(DocHrefs) :
            PhoneMinLen <= DigitCount(p) /\ DigitCount(p) <= PhoneMaxLen

\* C7: an email or a phone number that an anchor (mailto:, tel:) and the free
\* text both give, character for character, has exactly one entry in the
\* result.  (No free-text path exists for social links.)
C7_OneEntryPerContact ==
    Extracted =>
        /\ \A e \in AnchorEmails(DocHrefs) \cap Range(FindEmails(DocText)) :
              Cardinality({x \in state.emails : Lower(x) = Lower(e)}) = 1
        /\ \A n \in AnchorPhones(DocHrefs) \cap Range(FindPhones(DocText)) :
              PhoneAccepted(CleanPhone(n)) =>
                 Cardinality({x \in state.phones : CleanPhone(x) = CleanPhone(n)}) = 1

\* C8: a line of the text shorter than 30 or longer than 200 characters is
\* never added to addresses, whatever keywords it contains: every entry of
\* addresses is the stripped form of a keyword line of 30 to 200 characters.
C8_AddressLineLength ==
    Extracted =>
        \A a \in state.addresses :
            \E line \in DocLines :
                /\ Strip(line) = a
                /\ HasAddressKeyword(line)
                /\ AddrMinLen <= Len(line)
                /\ Len(line) <= AddrMaxLen

\* C8's case: the text holds one keyword line shorter than 30 characters and
\* one longer than 200, and contact_node returned no address.
C8_Witness ==
    /\ Extracted
    /\ \E line \in DocLines : HasAddressKeyword(line) /\ Len(line) < AddrMinLen
    /\ \E line \in DocLines : HasAddressKeyword(line) /\ Len(line) > AddrMaxLen
    /\ state.addresses = {}

=============================================================================
